---- MODULE Spec2Model ----
(***************************************************************************)
(* ICE candidates (src/ice/cand.c): the local and the remote candidate     *)
(* list of one ICE media context, the four insertion functions, the        *)
(* destructor that runs when a candidate's last reference is released,     *)
(* icem_cand_find and the two debug printers.                              *)
(***************************************************************************)
EXTENDS Integers, Sequences, FiniteSets, TLC

\* ---------------------------------------------------------------- bounds
MaxCands == 3

\* ------------------------------------------------------------- constants
NULL == 0
EINVAL == 22
ENOMEM == 12
ENOENT == 2

CAND_TYPE_HOST == 0
CAND_TYPE_SRFLX == 1
CAND_TYPE_PRFLX == 2
CAND_TYPE_RELAY == 3

AF_INET == 2
AF_INET6 == 10

CandId == 1..MaxCands

\* struct sa: family, IP and port.  A zeroed sa is the unset address.
SaZero == [af |-> 0, ip |-> 0, port |-> 0]

Sa(af, ip, port) == [af |-> af, ip |-> ip, port |-> port]

\* A pointer argument is <<>> when NULL and <<x>> when it points at x.
NullPtr == <<>>

PtrTo(x) == <<x>>

\* sa_cpy(dst, src): a NULL source leaves the destination untouched
sa_cpy(dst, src) == IF src = NullPtr THEN dst ELSE src[1]

\* sa_set_port(sa, port)
sa_set_port(sa, port) == [sa EXCEPT !.port = port]

\* sa_cmp(l, r, SA_ALL): family, address and port all equal
sa_cmp(l, r) == l.af = r.af /\ l.ip = r.ip /\ l.port = r.port

\* sa_isset(sa, SA_ADDR)
sa_isset(sa) == sa.ip # 0

\* sa_hash(sa, SA_ADDR): a hash of the IP only, the port is left out
sa_hash(sa) == (sa.ip * 40503) % 65536

\* bitwise exclusive or of two 32-bit values
RECURSIVE Xor(_, _)
Xor(a, b) ==
    IF a = 0 THEN b
    ELSE IF b = 0 THEN a
    ELSE (((a % 2) + (b % 2)) % 2) + (2 * Xor(a \div 2, b \div 2))

\* "%08x": eight hexadecimal digits, most significant first
RECURSIVE HexDigits(_, _)
HexDigits(v, n) ==
    IF n = 0 THEN <<>>
    ELSE Append(HexDigits(v \div 16, n - 1), v % 16)

Hex8(v) == HexDigits(v, 8)

\* bitwise or of two error codes (err |= ...)
RECURSIVE BitOr(_, _)
BitOr(a, b) ==
    IF a = 0 THEN b
    ELSE IF b = 0 THEN a
    ELSE (IF (a % 2) + (b % 2) > 0 THEN 1 ELSE 0)
         + (2 * BitOr(a \div 2, b \div 2))

\* ice_calc_prio(type, lprio, compid)
TypePref(type) ==
    CASE type = CAND_TYPE_HOST -> 126
      [] type = CAND_TYPE_PRFLX -> 110
      [] type = CAND_TYPE_SRFLX -> 100
      [] OTHER -> 0

ice_calc_prio(type, lprio, compid) ==
    (TypePref(type) * 16777216) + (lprio * 256) + (256 - compid)

\* ------------------------------------------------------------------ heap
\* struct cand as mem_zalloc returns it, with its reference count
ZeroCand ==
    [st |-> "free", nrefs |-> 0, type |-> 0, compid |-> 0, prio |-> 0,
     transp |-> 0, addr |-> SaZero, rel |-> SaZero,
     foundation |-> NullPtr, ifname |-> NullPtr, base |-> NULL]

DeadCand == [ZeroCand EXCEPT !.st = "dead"]

\* the components of the media context: id -> bound local port
Comps == (1 :> 5000) @@ (2 :> 5001)

icem_comp_find(compid) == IF compid \in DOMAIN Comps THEN compid ELSE NULL

RECURSIVE SeqRemove(_, _)
SeqRemove(s, x) ==
    IF s = <<>> THEN <<>>
    ELSE IF Head(s) = x THEN SeqRemove(Tail(s), x)
    ELSE <<Head(s)>> \o SeqRemove(Tail(s), x)

InSeq(s, x) == \E i \in 1..Len(s) : s[i] = x

\* list_append(list, le, data)
list_append(list, c) == Append(list, c)

\* list_unlink(le): takes the element out of the list it is linked in
list_unlink(h, c) ==
    [h EXCEPT !.lcandl = SeqRemove(h.lcandl, c),
              !.rcandl = SeqRemove(h.rcandl, c)]

\* mem_zalloc: the lowest free slot, zeroed, with one reference
FreeIds(h) == {c \in CandId : h.cand[c].st = "free"}

Fresh(h) == CHOOSE c \in FreeIds(h) : \A d \in FreeIds(h) : c <= d

mem_zalloc(h, c) ==
    [h EXCEPT !.cand[c] = [ZeroCand EXCEPT !.st = "live", !.nrefs = 1]]

\* mem_ref(data).  nrefs is a uint32_t; the model keeps it as the signed
\* reading of the same 32 bits, so 0 - 1 is -1 (0xffffffff) and the
\* unsigned test "nrefs > 0" is "nrefs # 0".
mem_ref(h, c) ==
    [h EXCEPT !.cand[c].nrefs = h.cand[c].nrefs + 1]

RECURSIVE mem_deref(_, _, _)
RECURSIVE cand_destructor(_, _)

\* the destructor as it would be without the self-base test
cand_destructor_noselfcheck(h, c) ==
    LET b  == h.cand[c].base
        h1 == list_unlink(h, c)
        h2 == [h1 EXCEPT !.log = Append(h1.log,
                   [ev |-> "dtor", obj |-> c, by |-> c, val |-> b])]
    IN  mem_deref(h2, b, c)

cand_destructor(h, c) ==
    LET b  == h.cand[c].base
        h1 == list_unlink(h, c)
        h2 == [h1 EXCEPT !.log = Append(h1.log,
                   [ev |-> "dtor", obj |-> c, by |-> c, val |-> b])]
    IN  IF c # b THEN mem_deref(h2, b, c) ELSE h2

\* mem_deref(data): drop one reference; at zero run the destructor and
\* free the object, unless the destructor left a reference behind.
\* "by" is the candidate whose destructor makes the call, 0 for a caller.
\* The log gets one "deref" entry per call on a non-NULL object (val: the
\* count before the call) and one "dtor" entry per destructor run (val:
\* the base of the candidate at that time).
mem_deref(h, c, by) ==
    IF c = NULL THEN h
    ELSE
      LET old == h.cand[c].nrefs
          n   == old - 1
          h1  == [h EXCEPT !.cand[c].nrefs = n,
                           !.log = Append(h.log,
                               [ev |-> "deref", obj |-> c, by |-> by,
                                val |-> old])]
      IN  IF n # 0 THEN h1
          ELSE LET h2 == cand_destructor(h1, c)
               IN  IF h2.cand[c].nrefs # 0 THEN h2
                   ELSE [h2 EXCEPT !.cand[c] = DeadCand]

\* the memory of a candidate that no caller ever saw is handed out again
Reclaim(h, c) ==
    IF h.cand[c].st = "dead" THEN [h EXCEPT !.cand[c] = ZeroCand] ELSE h

\* ------------------------------------------------------------ insertion
\* which of the allocations of one call run out of memory
FailNone == [zalloc |-> FALSE, fnd |-> FALSE, str |-> FALSE]

Result(h, err, c) == [h |-> h, err |-> err, cand |-> c]

\* compute_foundation: "%08x" of the address hash xor the type
compute_foundation(h, c, fail) ==
    IF fail.fnd THEN Result(h, ENOMEM, c)
    ELSE Result([h EXCEPT !.cand[c].foundation =
                    PtrTo(Hex8(Xor(sa_hash(h.cand[c].addr),
                                   h.cand[c].type)))], 0, c)

\* str_dup(&dst, src)
str_dup(h, c, src, fail) ==
    IF fail.str THEN Result(h, ENOMEM, c)
    ELSE Result([h EXCEPT !.cand[c].ifname = src], 0, c)

\* cand_alloc without the release of the candidate on error
cand_alloc_leak(h, icem, type, compid, prio, ifname, transp, addr, fail) ==
    IF icem = NULL THEN Result(h, EINVAL, NULL)
    ELSE IF fail.zalloc THEN Result(h, ENOMEM, NULL)
    ELSE
      LET c  == Fresh(h)
          h1 == mem_zalloc(h, c)
          h2 == [h1 EXCEPT !.lcandl = list_append(h1.lcandl, c)]
          h3 == [h2 EXCEPT !.cand[c].type = type,
                           !.cand[c].compid = compid,
                           !.cand[c].prio = prio,
                           !.cand[c].transp = transp,
                           !.cand[c].addr = sa_cpy(h2.cand[c].addr, addr)]
          r1 == compute_foundation(h3, c, fail)
          r2 == IF ifname # NullPtr
                THEN str_dup(r1.h, c, ifname, fail)
                ELSE Result(r1.h, 0, c)
          err == BitOr(r1.err, r2.err)
      IN  IF err # 0 THEN Result(r2.h, err, NULL)
          ELSE Result(r2.h, 0, c)

cand_alloc(h, icem, type, compid, prio, ifname, transp, addr, fail) ==
    IF icem = NULL THEN Result(h, EINVAL, NULL)
    ELSE IF fail.zalloc THEN Result(h, ENOMEM, NULL)
    ELSE
      LET c  == Fresh(h)
          h1 == mem_zalloc(h, c)
          h2 == [h1 EXCEPT !.lcandl = list_append(h1.lcandl, c)]
          h3 == [h2 EXCEPT !.cand[c].type = type,
                           !.cand[c].compid = compid,
                           !.cand[c].prio = prio,
                           !.cand[c].transp = transp,
                           !.cand[c].addr = sa_cpy(h2.cand[c].addr, addr)]
          r1 == compute_foundation(h3, c, fail)
          r2 == IF ifname # NullPtr
                THEN str_dup(r1.h, c, ifname, fail)
                ELSE Result(r1.h, 0, c)
          err == BitOr(r1.err, r2.err)
      IN  IF err # 0
          THEN Result(Reclaim(mem_deref(r2.h, c, 0), c), err, NULL)
          ELSE Result(r2.h, 0, c)

\* icem_lcand_add_base with the caller's port kept
icem_lcand_add_base_keepport(h, icem, compid, lprio, ifname, transp, addr, fail) ==
    LET comp == icem_comp_find(compid)
    IN  IF comp = NULL THEN Result(h, ENOENT, NULL)
        ELSE
          LET r == cand_alloc(h, icem, CAND_TYPE_HOST, compid,
                              ice_calc_prio(CAND_TYPE_HOST, lprio, compid),
                              ifname, transp, addr, fail)
          IN  IF r.err # 0 THEN r
              ELSE Result([r.h EXCEPT !.cand[r.cand].base = r.cand],
                          0, r.cand)

icem_lcand_add_base(h, icem, compid, lprio, ifname, transp, addr, fail) ==
    LET comp == icem_comp_find(compid)
    IN  IF comp = NULL THEN Result(h, ENOENT, NULL)
        ELSE
          LET r == cand_alloc(h, icem, CAND_TYPE_HOST, compid,
                              ice_calc_prio(CAND_TYPE_HOST, lprio, compid),
                              ifname, transp, addr, fail)
              c == r.cand
          IN  IF r.err # 0 THEN r
              ELSE Result([r.h EXCEPT
                             !.cand[c].base = c,
                             !.cand[c].addr =
                                 sa_set_port(r.h.cand[c].addr, Comps[comp])],
                          0, c)

\* icem_lcand_add that stores the base without taking a reference
icem_lcand_add_noref(h, icem, base, type, addr, fail) ==
    IF base = NULL THEN Result(h, EINVAL, NULL)
    ELSE
      LET b == h.cand[base]
          r == cand_alloc(h, icem, type, b.compid,
                          ice_calc_prio(type, 0, b.compid),
                          b.ifname, b.transp, addr, fail)
          c == r.cand
      IN  IF r.err # 0 THEN r
          ELSE Result([r.h EXCEPT
                           !.cand[c].base = base,
                           !.cand[c].rel =
                               sa_cpy(r.h.cand[c].rel, PtrTo(b.addr))],
                      0, c)

icem_lcand_add(h, icem, base, type, addr, fail) ==
    IF base = NULL THEN Result(h, EINVAL, NULL)
    ELSE
      LET b == h.cand[base]
          r == cand_alloc(h, icem, type, b.compid,
                          ice_calc_prio(type, 0, b.compid),
                          b.ifname, b.transp, addr, fail)
          c == r.cand
      IN  IF r.err # 0 THEN r
          ELSE LET h1 == mem_ref(r.h, base)
               IN  Result([h1 EXCEPT
                             !.cand[c].base = base,
                             !.cand[c].rel =
                                 sa_cpy(h1.cand[c].rel, PtrTo(b.addr))],
                          0, c)

\* struct pl: a pointer into a buffer and a length
Pl(p, l) == [p |-> p, l |-> l]

\* pl_strdup(&dst, src): EINVAL for a pl without a pointer, else a copy of
\* the first l characters
pl_strdup(h, c, src, fail) ==
    IF src.p = NullPtr THEN Result(h, EINVAL, c)
    ELSE IF fail.str THEN Result(h, ENOMEM, c)
    ELSE Result([h EXCEPT !.cand[c].foundation =
                    PtrTo(SubSeq(src.p[1], 1, src.l))], 0, c)

icem_rcand_add(h, icem, type, compid, prio, addr, rel_addr, foundation, fail) ==
    IF icem = NULL \/ foundation = NullPtr THEN Result(h, EINVAL, NULL)
    ELSE IF fail.zalloc THEN Result(h, ENOMEM, NULL)
    ELSE
      LET c  == Fresh(h)
          h1 == mem_zalloc(h, c)
          h2 == [h1 EXCEPT !.rcandl = list_append(h1.rcandl, c)]
          h3 == [h2 EXCEPT !.cand[c].type = type,
                           !.cand[c].compid = compid,
                           !.cand[c].prio = prio,
                           !.cand[c].addr = sa_cpy(h2.cand[c].addr, addr),
                           !.cand[c].rel = sa_cpy(h2.cand[c].rel, rel_addr)]
          r  == pl_strdup(h3, c, foundation[1], fail)
      IN  IF r.err # 0
          THEN Result(Reclaim(mem_deref(r.h, c, 0), c), r.err, NULL)
          ELSE Result(r.h, 0, c)

\* re_sdprintf(&foundation, "%08x", rand_u32())
rand_foundation(h, c, rnd, fail) ==
    IF fail.fnd THEN Result(h, ENOMEM, c)
    ELSE Result([h EXCEPT !.cand[c].foundation = PtrTo(Hex8(rnd))], 0, c)

icem_rcand_add_prflx(h, icem, compid, prio, addr, rnd, fail) ==
    IF icem = NULL \/ addr = NullPtr THEN Result(h, EINVAL, NULL)
    ELSE IF fail.zalloc THEN Result(h, ENOMEM, NULL)
    ELSE
      LET c  == Fresh(h)
          h1 == mem_zalloc(h, c)
          h2 == [h1 EXCEPT !.rcandl = list_append(h1.rcandl, c)]
          h3 == [h2 EXCEPT !.cand[c].type = CAND_TYPE_PRFLX,
                           !.cand[c].compid = compid,
                           !.cand[c].prio = prio,
                           !.cand[c].addr = addr[1]]
          r  == rand_foundation(h3, c, rnd, fail)
      IN  IF r.err # 0
          THEN Result(Reclaim(mem_deref(r.h, c, 0), c), r.err, NULL)
          ELSE Result(r.h, 0, c)

\* ----------------------------------------------------------------- find
\* icem_cand_find that ignores the component id
RECURSIVE icem_cand_find_anycomp(_, _, _, _)
icem_cand_find_anycomp(cands, lst, compid, addr) ==
    IF lst = <<>> THEN NULL
    ELSE
      LET c == Head(lst)
      IN  IF addr # NullPtr /\ ~sa_cmp(cands[c].addr, addr[1])
          THEN icem_cand_find_anycomp(cands, Tail(lst), compid, addr)
          ELSE c

\* icem_cand_find: the loop over the list from its head
RECURSIVE icem_cand_find(_, _, _, _)
icem_cand_find(cands, lst, compid, addr) ==
    IF lst = <<>> THEN NULL
    ELSE
      LET c == Head(lst)
      IN  IF compid # 0 /\ cands[c].compid # compid
          THEN icem_cand_find(cands, Tail(lst), compid, addr)
          ELSE IF addr # NullPtr /\ ~sa_cmp(cands[c].addr, addr[1])
          THEN icem_cand_find(cands, Tail(lst), compid, addr)
          ELSE c

\* ---------------------------------------------------------- presentation
\* The output sink (struct re_printf): writes before number failAt succeed,
\* write number failAt returns code, every later write returns later.
\* failAt = 0 is a sink that never fails.
SinkResult(sink, k) ==
    IF sink.failAt = 0 \/ k < sink.failAt THEN 0
    ELSE IF k = sink.failAt THEN sink.code
    ELSE sink.later

\* re_hprintf(pf, ...): one write of a fragment to the sink
re_hprintf(pf, frag, c) ==
    LET e == SinkResult(pf.sink, Len(pf.out) + 1)
    IN  [pf |-> [pf EXCEPT !.out = Append(pf.out,
                     [frag |-> frag, c |-> c, err |-> e])],
         err |-> e]

\* icem_cand_print(pf, c)
icem_cand_print(pf, cands, c) ==
    IF c = NULL THEN [pf |-> pf, err |-> 0]
    ELSE
      LET w1 == IF cands[c].ifname # NullPtr
                THEN re_hprintf(pf, "ifname", c)
                ELSE [pf |-> pf, err |-> 0]
          w2 == re_hprintf(w1.pf, "type:addr", c)
      IN  [pf |-> w2.pf, err |-> BitOr(w1.err, w2.err)]

\* the body of the loop of icem_cands_debug; the "%H" of the first
\* re_hprintf is part of that one write
RECURSIVE cands_debug_loop(_, _, _, _)
cands_debug_loop(pf, cands, lst, err) ==
    IF lst = <<>> \/ err # 0 THEN [pf |-> pf, err |-> err]
    ELSE
      LET c  == Head(lst)
          w1 == re_hprintf(pf, "cand", c)
          w2 == IF sa_isset(cands[c].rel)
                THEN re_hprintf(w1.pf, "rel-addr", c)
                ELSE [pf |-> w1.pf, err |-> 0]
          w3 == re_hprintf(w2.pf, "newline", c)
          e  == BitOr(BitOr(BitOr(err, w1.err), w2.err), w3.err)
      IN  cands_debug_loop(w3.pf, cands, Tail(lst), e)

\* icem_cands_debug(pf, lst)
icem_cands_debug(pf, cands, lst) ==
    LET w == re_hprintf(pf, "count", Len(lst))
    IN  cands_debug_loop(w.pf, cands, lst, w.err)

\* ---------------------------------------------------------------- state
VARIABLES
    cand,     \* the candidates: slot -> struct cand with its reference count
    lcandl,   \* icem->lcandl, the local candidates in list order
    rcandl,   \* icem->rcandl, the remote candidates in list order
    owned,    \* candidates whose initial reference the owner still holds
    op,       \* the last function called
    arg,      \* its arguments
    ret,      \* its return value
    res,      \* the candidate it handed back (*candp, *rcp, find result)
    log,      \* the mem_deref calls and destructor runs it caused
    out       \* the writes it made to the output sink

vars == <<cand, lcandl, rcandl, owned, op, arg, ret, res, log, out>>

ICEM == 1

H == [cand |-> cand, lcandl |-> lcandl, rcandl |-> rcandl, log |-> <<>>]

Init ==
    /\ cand = [c \in CandId |-> ZeroCand]
    /\ lcandl = <<>>
    /\ rcandl = <<>>
    /\ owned = {}
    /\ op = "init"
    /\ arg = <<>>
    /\ ret = 0
    /\ res = NULL
    /\ log = <<>>
    /\ out = <<>>

\* the effect of one insertion call on the state
Commit(r, name, a) ==
    /\ cand' = r.h.cand
    /\ lcandl' = r.h.lcandl
    /\ rcandl' = r.h.rcandl
    /\ log' = r.h.log
    /\ owned' = IF r.err = 0 THEN owned \cup {r.cand} ELSE owned
    /\ op' = name
    /\ arg' = a
    /\ ret' = r.err
    /\ res' = r.cand
    /\ out' = <<>>

LcandAddBase(compid, lprio, ifname, transp, addr, fail) ==
    /\ FreeIds(H) # {}
    /\ Commit(icem_lcand_add_base(H, ICEM, compid, lprio, ifname, transp,
                                  addr, fail),
              "icem_lcand_add_base",
              [compid |-> compid, lprio |-> lprio, ifname |-> ifname,
               transp |-> transp, addr |-> addr, fail |-> fail])

LcandAdd(icem, base, type, addr, fail) ==
    /\ FreeIds(H) # {}
    /\ IF base = NULL THEN TRUE ELSE cand[base].st = "live"
    /\ Commit(icem_lcand_add(H, icem, base, type, addr, fail),
              "icem_lcand_add",
              [icem |-> icem, base |-> base, type |-> type, addr |-> addr,
               fail |-> fail])

RcandAdd(icem, type, compid, prio, addr, rel_addr, foundation, fail) ==
    /\ FreeIds(H) # {}
    /\ Commit(icem_rcand_add(H, icem, type, compid, prio, addr, rel_addr,
                             foundation, fail),
              "icem_rcand_add",
              [icem |-> icem, type |-> type, compid |-> compid,
               prio |-> prio, addr |-> addr, rel_addr |-> rel_addr,
               foundation |-> foundation, fail |-> fail])

RcandAddPrflx(icem, compid, prio, addr, rnd, fail) ==
    /\ FreeIds(H) # {}
    /\ Commit(icem_rcand_add_prflx(H, icem, compid, prio, addr, rnd, fail),
              "icem_rcand_add_prflx",
              [icem |-> icem, compid |-> compid, prio |-> prio,
               addr |-> addr, rnd |-> rnd, fail |-> fail])

\* the owner of a candidate gives up its reference: mem_deref(cand)
Release(c) ==
    /\ c \in owned
    /\ LET h == mem_deref(H, c, 0)
       IN  /\ cand' = h.cand
           /\ lcandl' = h.lcandl
           /\ rcandl' = h.rcandl
           /\ log' = h.log
    /\ owned' = owned \ {c}
    /\ op' = "mem_deref"
    /\ arg' = [c |-> c]
    /\ ret' = 0
    /\ res' = NULL
    /\ out' = <<>>

ListOf(name) == IF name = "lcandl" THEN lcandl ELSE rcandl

Find(lst, compid, addr) ==
    /\ op' = "icem_cand_find"
    /\ arg' = [lst |-> lst, compid |-> compid, addr |-> addr]
    /\ ret' = 0
    /\ res' = icem_cand_find(cand, ListOf(lst), compid, addr)
    /\ log' = <<>>
    /\ out' = <<>>
    /\ UNCHANGED <<cand, lcandl, rcandl, owned>>

CandsDebug(lst, sink) ==
    /\ LET r == icem_cands_debug([sink |-> sink, out |-> <<>>], cand,
                                 ListOf(lst))
       IN  /\ out' = r.pf.out
           /\ ret' = r.err
    /\ op' = "icem_cands_debug"
    /\ arg' = [lst |-> lst, sink |-> sink]
    /\ res' = NULL
    /\ log' = <<>>
    /\ UNCHANGED <<cand, lcandl, rcandl, owned>>

CandPrint(c, sink) ==
    /\ IF c = NULL THEN TRUE ELSE cand[c].st = "live"
    /\ LET r == icem_cand_print([sink |-> sink, out |-> <<>>], cand, c)
       IN  /\ out' = r.pf.out
           /\ ret' = r.err
    /\ op' = "icem_cand_print"
    /\ arg' = [c |-> c, sink |-> sink]
    /\ res' = NULL
    /\ log' = <<>>
    /\ UNCHANGED <<cand, lcandl, rcandl, owned>>

\* ---------------------------------------------------------------- inputs
ADDR_A == Sa(AF_INET, 1, 4000)
ADDR_B == Sa(AF_INET, 1, 5000)
ADDR_C == Sa(AF_INET, 2, 5000)
ADDR_D == Sa(AF_INET6, 1, 5000)

ICE_TRANSP_UDP == 17

PlNoPtr == Pl(NullPtr, 0)
PlZeroLen == Pl(PtrTo(<<10, 11>>), 0)
PlText == Pl(PtrTo(<<10, 11>>), 2)

FailZalloc == [FailNone EXCEPT !.zalloc = TRUE]

FailFnd == [FailNone EXCEPT !.fnd = TRUE]

FailStr == [FailNone EXCEPT !.str = TRUE]

\* Ownership: insertions that can fail at every allocation, derived
\* candidates of every type on every live base, and releases.
Next ==
    \/ \E compid \in {1, 3}, ifname \in {NullPtr, PtrTo("eth0")},
          fail \in {FailNone, FailZalloc, FailFnd, FailStr} :
          LcandAddBase(compid, 0, ifname, ICE_TRANSP_UDP, PtrTo(ADDR_A),
                       fail)
    \/ \E icem \in {NULL, ICEM}, base \in {NULL} \cup CandId,
          type \in {CAND_TYPE_HOST, CAND_TYPE_SRFLX},
          fail \in {FailNone, FailFnd} :
          LcandAdd(icem, base, type, PtrTo(ADDR_C), fail)
    \/ \E icem \in {NULL, ICEM}, foundation \in {NullPtr, PtrTo(PlText)},
          fail \in {FailNone, FailStr} :
          RcandAdd(icem, CAND_TYPE_HOST, 1, 7, PtrTo(ADDR_B), NullPtr,
                   foundation, fail)
    \/ \E addr \in {NullPtr, PtrTo(ADDR_B)},
          fail \in {FailNone, FailZalloc, FailFnd} :
          RcandAddPrflx(ICEM, 1, 7, addr, 305419896, fail)
    \/ \E c \in CandId : Release(c)

Spec == Init /\ [][Next]_vars

\* Lookup: candidates that differ in component id and in the IP, the port
\* and the family of their address, and lookups with every argument.
NextFind ==
    \/ \E compid \in {1, 2}, addr \in {ADDR_B, ADDR_C, ADDR_D} :
          RcandAdd(ICEM, CAND_TYPE_HOST, compid, 7, PtrTo(addr), NullPtr,
                   PtrTo(PlText), FailNone)
    \/ \E compid \in {1, 2} :
          LcandAddBase(compid, 0, NullPtr, ICE_TRANSP_UDP, PtrTo(ADDR_A),
                       FailNone)
    \/ \E lst \in {"lcandl", "rcandl"}, compid \in {0, 1, 2},
          addr \in {NullPtr, PtrTo(ADDR_A), PtrTo(ADDR_B), PtrTo(ADDR_C),
                    PtrTo(ADDR_D)} :
          Find(lst, compid, addr)

SpecFind == Init /\ [][NextFind]_vars

\* Arguments: every component id, foundation and address a caller can
\* pass to the insertion functions.
NextArgs ==
    \/ \E compid \in {0, 1, 2, 3}, addr \in {ADDR_A, ADDR_D} :
          LcandAddBase(compid, 65535, NullPtr, ICE_TRANSP_UDP, PtrTo(addr),
                       FailNone)
    \/ \E base \in {NULL} \cup CandId :
          LcandAdd(ICEM, base, CAND_TYPE_SRFLX, PtrTo(ADDR_C), FailNone)
    \/ \E compid \in {0, 1},
          foundation \in {NullPtr, PtrTo(PlNoPtr), PtrTo(PlZeroLen),
                          PtrTo(PlText)} :
          RcandAdd(ICEM, CAND_TYPE_HOST, compid, 7, PtrTo(ADDR_B), NullPtr,
                   foundation, FailNone)
    \/ \E compid \in {0, 1} :
          RcandAddPrflx(ICEM, compid, 7, PtrTo(ADDR_B), 305419896, FailNone)

SpecArgs == Init /\ [][NextArgs]_vars

\* Presentation: lists with and without interface names and related
\* addresses, printed to sinks that fail at any of the first writes.
SinkSet == [failAt : 0..4, code : {ENOMEM}, later : {0, EINVAL}]

NextPrint ==
    \/ \E ifname \in {NullPtr, PtrTo("eth0")} :
          LcandAddBase(1, 0, ifname, ICE_TRANSP_UDP, PtrTo(ADDR_A), FailNone)
    \/ \E rel_addr \in {NullPtr, PtrTo(ADDR_A)} :
          RcandAdd(ICEM, CAND_TYPE_SRFLX, 1, 7, PtrTo(ADDR_B), rel_addr,
                   PtrTo(PlText), FailNone)
    \/ \E lst \in {"lcandl", "rcandl"}, sink \in SinkSet :
          CandsDebug(lst, sink)
    \/ \E c \in {NULL} \cup CandId, sink \in SinkSet :
          CandPrint(c, sink)

SpecPrint == Init /\ [][NextPrint]_vars

\* ----------------------------------------------------------- properties
InsertOps ==
    {"icem_lcand_add_base", "icem_lcand_add", "icem_rcand_add",
     "icem_rcand_add_prflx"}

Linked(c) == InSeq(lcandl, c) \/ InSeq(rcandl, c)

LogIdx(ev) == {i \in 1..Len(log) : log[i].ev = ev}

\* C1: an insertion call that returns an error leaves both lists with the
\* same candidates in the same order, and every candidate (reference count
\* included) as it was before the call.
C1_FailedInsertUnchanged ==
    [][(op' \in InsertOps /\ ret' # 0)
         => (lcandl' = lcandl /\ rcandl' = rcandl /\ cand' = cand
             /\ owned' = owned)]_vars

\* a failed insertion that had already linked its candidate, next to a
\* base with a derived candidate
C1_Witness ==
    /\ op \in InsertOps
    /\ ret # 0
    /\ LogIdx("dtor") # {}
    /\ \E c \in CandId : cand[c].nrefs = 2
    /\ rcandl # <<>>

\* C2: in the local list a host candidate is its own base and every other
\* candidate has a base that is another candidate.
C2_BaseByType ==
    \A i \in 1..Len(lcandl) :
        LET c == lcandl[i]
        IN  IF cand[c].type = CAND_TYPE_HOST
            THEN cand[c].base = c
            ELSE cand[c].base # NULL /\ cand[c].base # c

\* C3: the base of a live derived candidate is alive, a candidate whose
\* owner still holds its reference is alive, and a successful
\* icem_lcand_add adds exactly one reference to the base.
C3_BaseAlive ==
    \A c \in CandId :
        /\ (cand[c].st = "live" /\ cand[c].base # NULL)
               => cand[cand[c].base].st = "live"
        /\ c \in owned => cand[c].st = "live"

C3_TakesOneRef ==
    [][(op' = "icem_lcand_add" /\ ret' = 0)
         => cand'[arg'.base].nrefs = cand[arg'.base].nrefs + 1]_vars

C3_BaseOutlivesDerived == []C3_BaseAlive /\ C3_TakesOneRef

\* the owner has released a base that a live derived candidate still uses
C3_Witness ==
    /\ op = "mem_deref"
    /\ cand[arg.c].st = "live"
    /\ \E d \in CandId \ {arg.c} :
           cand[d].st = "live" /\ cand[d].base = arg.c

\* C7: a release takes the candidate out of its list and leaves the other
\* candidates in their order; an insertion appends at the end.
C7_ReleaseUnlinks ==
    [][/\ op' = "mem_deref"
           => /\ lcandl' = SeqRemove(lcandl, arg'.c)
              /\ rcandl' = SeqRemove(rcandl, arg'.c)
       /\ (op' \in InsertOps /\ ret' = 0)
           => \/ lcandl' = Append(lcandl, res') /\ rcandl' = rcandl
              \/ rcandl' = Append(rcandl, res') /\ lcandl' = lcandl]_vars

\* C9: no mem_deref is made on a count of zero, no candidate is destroyed
\* twice, and a destructor run releases its base exactly once when the
\* base is another candidate and makes no release otherwise.
C9_ReleaseOnce ==
    /\ \A c \in CandId : cand[c].nrefs >= 0
    /\ \A i \in LogIdx("deref") : log[i].val > 0
    /\ \A i, j \in LogIdx("dtor") : log[i].obj = log[j].obj => i = j
    /\ \A i \in LogIdx("dtor") :
          LET made == {j \in LogIdx("deref") : log[j].by = log[i].obj}
          IN  IF log[i].val = NULL \/ log[i].val = log[i].obj
              THEN made = {}
              ELSE /\ Cardinality(made) = 1
                   /\ \A j \in made : log[j].obj = log[i].val

\* the release of a derived candidate destroys it and then its base, a
\* host candidate that is its own base
C9_Witness ==
    \E i, j \in LogIdx("dtor") :
        /\ i # j
        /\ log[i].val = log[j].obj
        /\ log[j].val = log[j].obj

\* the first candidate of a list that a lookup for (compid, addr) accepts
Accepts(c, compid, addr) ==
    /\ compid = 0 \/ cand[c].compid = compid
    /\ \/ addr = NullPtr
       \/ /\ cand[c].addr.ip = addr[1].ip
          /\ cand[c].addr.port = addr[1].port
          /\ cand[c].addr.af = addr[1].af

\* C4: icem_cand_find returns the earliest candidate of the list that has
\* the component id (any, when compid is 0) and the address (any, when
\* addr is NULL; IP, port and family otherwise), and NULL exactly when the
\* list has no such candidate.
C4_FindFirstMatch ==
    op = "icem_cand_find" =>
        LET lst == ListOf(arg.lst)
            ok  == {i \in 1..Len(lst) : Accepts(lst[i], arg.compid, arg.addr)}
        IN  IF ok = {} THEN res = NULL
            ELSE \E i \in ok : res = lst[i] /\ \A j \in ok : i <= j

\* a lookup with a component id and an address that skips an earlier
\* candidate of another component and one with another address
C4_Witness ==
    /\ op = "icem_cand_find"
    /\ arg.compid # 0
    /\ arg.addr # NullPtr
    /\ res # NULL
    /\ LET lst == ListOf(arg.lst)
       IN  /\ Len(lst) >= 3
           /\ res = lst[3]
           /\ cand[lst[1]].compid # arg.compid
           /\ cand[lst[2]].compid = arg.compid

\* C5: icem_rcand_add with an absent or zero-length foundation returns
\* EINVAL and adds nothing, and every linked candidate has a foundation
\* of one character or more.
C5_FoundationNonEmpty ==
    /\ \A c \in CandId :
          Linked(c) => (cand[c].foundation # NullPtr
                        /\ Len(cand[c].foundation[1]) > 0)
    /\ (op = "icem_rcand_add"
          /\ (arg.foundation = NullPtr \/ arg.foundation[1].l = 0))
         => (ret = EINVAL /\ res = NULL)

\* C6: no linked candidate has component id 0.
C6_CompidNonZero ==
    \A c \in CandId : Linked(c) => cand[c].compid # 0

\* C8: icem_lcand_add_base returns ENOENT and changes neither list when
\* the component is unknown; when it succeeds the new candidate is the
\* last of the local list, with the family and IP of addr and the local
\* port of the component.
C8_HostPortFromComponent ==
    [][op' = "icem_lcand_add_base"
         => /\ arg'.compid \notin DOMAIN Comps
                 => (ret' = ENOENT /\ lcandl' = lcandl /\ rcandl' = rcandl
                     /\ cand' = cand)
            /\ ret' = 0
                 => /\ lcandl' = Append(lcandl, res')
                    /\ rcandl' = rcandl
                    /\ arg'.compid \in DOMAIN Comps
                    /\ cand'[res'].addr =
                         [af |-> arg'.addr[1].af, ip |-> arg'.addr[1].ip,
                          port |-> Comps[arg'.compid]]]_vars

\* a host candidate added with a port that is not the component's
C8_Witness ==
    /\ op = "icem_lcand_add_base"
    /\ ret = 0
    /\ arg.addr[1].port # Comps[arg.compid]
    /\ lcandl[Len(lcandl)] = res
    /\ cand[res].addr.port = Comps[arg.compid]
    /\ Len(lcandl) >= 2

\* C10: a print call makes no write after a write that failed and returns
\* the error of that write.
C10_StopAtFirstFailure ==
    op \in {"icem_cands_debug", "icem_cand_print"} =>
        \A i \in 1..Len(out) :
            out[i].err # 0 => (i = Len(out) /\ ret = out[i].err)

====
